---- MODULE Spec2Model ----
(***************************************************************************)
(* Yamaha SCP control module (src/index.js): dictionary parser, catalog    *)
(* synthesizer, wire codec, value cache, feedback evaluator and macro      *)
(* recorder, modelled as a state machine over JavaScript values.           *)
(*                                                                         *)
(* Text is modelled by TLA+ strings, character by character (Len, SubSeq   *)
(* and \o on strings), so tokenizing, line splitting, prefix matching and  *)
(* number formatting are computed the way the code computes them.          *)
(***************************************************************************)
EXTENDS Integers, Sequences, FiniteSets, TLC

(***************************************************************************)
(* Bounds of the model.                                                    *)
(***************************************************************************)
MaxMacro == 2
MaxFeedbacks == 1
MaxChunks == 2

(***************************************************************************)
(* JavaScript values: undefined, numbers (NaN apart), booleans, strings.   *)
(***************************************************************************)
Undef == [t |-> "undefined", n |-> 0, s |-> ""]
NaN == [t |-> "nan", n |-> 0, s |-> ""]
Num(n) == [t |-> "number", n |-> n, s |-> ""]
Bool(b) == [t |-> "boolean", n |-> IF b THEN 1 ELSE 0, s |-> ""]
Str(s) == [t |-> "string", n |-> 0, s |-> s]

\* o.k of a JavaScript object held as a function from property names to values
Get(o, k) == IF k \in DOMAIN o THEN o[k] ELSE Undef

\* o.k = v
Put(o, k, v) == [x \in DOMAIN o \cup {k} |-> IF x = k THEN v ELSE o[x]]

EmptyObj == [x \in {} |-> Undef]

(***************************************************************************)
(* Characters and strings.                                                 *)
(***************************************************************************)
Ch(s, i) == SubSeq(s, i, i)

Digits == "0123456789"
LowerCase == "abcdefghijklmnopqrstuvwxyz"
UpperCase == "ABCDEFGHIJKLMNOPQRSTUVWXYZ"

\* String.prototype.indexOf for a single character, 1-based, 0 when absent
CharIndexFrom(s, c, i) ==
    IF \E j \in i..Len(s) : Ch(s, j) = c
    THEN CHOOSE j \in i..Len(s) :
            Ch(s, j) = c /\ \A k \in i..(j - 1) : Ch(s, k) # c
    ELSE 0

CharIndex(s, c) == CharIndexFrom(s, c, 1)

LastCharIndexFrom(s, c, i) ==
    IF \E j \in 1..i : Ch(s, j) = c
    THEN CHOOSE j \in 1..i :
            Ch(s, j) = c /\ \A k \in (j + 1)..i : Ch(s, k) # c
    ELSE 0

\* String.prototype.lastIndexOf for a single character, 1-based, 0 when absent
LastCharIndex(s, c) == LastCharIndexFrom(s, c, Len(s))

IsDigit(c) == CharIndex(Digits, c) # 0
DigitVal(c) == CharIndex(Digits, c) - 1

UpperChar(c) ==
    LET i == CharIndex(LowerCase, c) IN IF i = 0 THEN c ELSE Ch(UpperCase, i)

LowerChar(c) ==
    LET i == CharIndex(UpperCase, c) IN IF i = 0 THEN c ELSE Ch(LowerCase, i)

\* character by character, the text taken by halves
RECURSIVE toUpperCase(_)
toUpperCase(s) ==
    IF Len(s) <= 1 THEN UpperChar(s)
    ELSE toUpperCase(SubSeq(s, 1, Len(s) \div 2))
            \o toUpperCase(SubSeq(s, Len(s) \div 2 + 1, Len(s)))

RECURSIVE toLowerCase(_)
toLowerCase(s) ==
    IF Len(s) <= 1 THEN LowerChar(s)
    ELSE toLowerCase(SubSeq(s, 1, Len(s) \div 2))
            \o toLowerCase(SubSeq(s, Len(s) \div 2 + 1, Len(s)))

\* s.slice(from0) with a 0-based, non-negative start
SliceFrom(s, from0) == SubSeq(s, from0 + 1, Len(s))

\* s.slice(0, n)
SliceTo(s, n) == SubSeq(s, 1, IF n < Len(s) THEN n ELSE Len(s))

\* s.slice(-n)
SliceLast(s, n) == SubSeq(s, IF Len(s) > n THEN Len(s) - n + 1 ELSE 1, Len(s))

startsWith(s, p) == SliceTo(s, Len(p)) = p

endsWith(s, p) == Len(s) >= Len(p) /\ SliceLast(s, Len(p)) = p

\* String.prototype.trim
RECURSIVE TrimLeft(_)
TrimLeft(s) ==
    IF s # "" /\ Ch(s, 1) \in {" ", "\n", "\t", "\r"}
    THEN TrimLeft(SubSeq(s, 2, Len(s))) ELSE s

RECURSIVE TrimRight(_)
TrimRight(s) ==
    IF s # "" /\ Ch(s, Len(s)) \in {" ", "\n", "\t", "\r"}
    THEN TrimRight(SubSeq(s, 1, Len(s) - 1)) ELSE s

trim(s) == TrimRight(TrimLeft(s))

\* s.split(c) for a one-character separator: always at least one piece
RECURSIVE split(_, _)
split(s, c) ==
    LET i == CharIndex(s, c) IN
    IF i = 0 THEN <<s>>
    ELSE <<SubSeq(s, 1, i - 1)>> \o split(SubSeq(s, i + 1, Len(s)), c)

\* s.replace(/"/g, '')
RECURSIVE StripQuotes(_)
StripQuotes(s) ==
    IF Len(s) <= 1 THEN (IF s = "\"" THEN "" ELSE s)
    ELSE StripQuotes(SubSeq(s, 1, Len(s) \div 2))
            \o StripQuotes(SubSeq(s, Len(s) \div 2 + 1, Len(s)))

(***************************************************************************)
(* Numbers and their text.                                                 *)
(***************************************************************************)
RECURSIVE NatToStr(_)
NatToStr(n) ==
    IF n < 10 THEN Ch(Digits, n + 1)
    ELSE NatToStr(n \div 10) \o Ch(Digits, (n % 10) + 1)

IntToStr(n) == IF n < 0 THEN "-" \o NatToStr(-n) ELSE NatToStr(n)

\* number of leading decimal digits of s from position i
RECURSIVE DigitRun(_, _)
DigitRun(s, i) ==
    IF i <= Len(s) /\ IsDigit(Ch(s, i)) THEN 1 + DigitRun(s, i + 1) ELSE 0

RECURSIVE DigitsVal(_, _, _)
DigitsVal(s, i, n) ==
    IF n = 0 THEN 0
    ELSE DigitsVal(s, i, n - 1) * 10 + DigitVal(Ch(s, i + n - 1))

\* length of the sign a text starts with
SignLen(s) == IF s # "" /\ Ch(s, 1) \in {"-", "+"} THEN 1 ELSE 0

\* the number that the sign of s and the n digits after it spell
Signed(s, n) ==
    IF n = 0 THEN NaN
    ELSE Num((IF Ch(s, 1) = "-" THEN -1 ELSE 1)
                * DigitsVal(s, SignLen(s) + 1, n))

\* parseInt of a text without leading white space
ParseTrimmed(s) == Signed(s, DigitRun(s, SignLen(s) + 1))

\* parseInt of a string: optional sign and leading digits, else NaN
ParseIntStr(s0) == ParseTrimmed(TrimLeft(s0))

\* ToString, as done by template literals and string concatenation
JSToString(v) ==
    CASE v.t = "string" -> v.s
      [] v.t = "number" -> IntToStr(v.n)
      [] v.t = "boolean" -> (IF v.n = 1 THEN "true" ELSE "false")
      [] v.t = "nan" -> "NaN"
      [] OTHER -> "undefined"

parseInt(v) == ParseIntStr(JSToString(v))

\* ToNumber of a trimmed text: all of it must be a decimal integer; "" is 0
WholeNumber(s) ==
    IF s = "" THEN Num(0)
    ELSE IF /\ Len(s) > SignLen(s)
            /\ DigitRun(s, SignLen(s) + 1) = Len(s) - SignLen(s)
    THEN ParseTrimmed(s)
    ELSE NaN

\* ToNumber
ToNumber(v) ==
    CASE v.t = "number" -> v
      [] v.t = "boolean" -> Num(v.n)
      [] v.t = "string" -> WholeNumber(trim(v.s))
      [] OTHER -> NaN

\* x + k for a number x
Add(x, k) == IF x.t = "number" THEN Num(x.n + k) ELSE NaN

\* -x for a number x
Opposite(x) == IF x.t = "number" THEN Num(-x.n) ELSE NaN

\* x == y for two numbers
SameNumber(x, y) == x.t = "number" /\ y.t = "number" /\ x.n = y.n

\* x > n for two numbers
IsGreater(x, n) == x.t = "number" /\ x.n > n

\* a == b (abstract equality)
LooseEq(a, b) ==
    CASE a.t = "undefined" \/ b.t = "undefined" -> a.t = b.t
      [] a.t = "string" /\ b.t = "string" -> a.s = b.s
      [] OTHER -> SameNumber(ToNumber(a), ToNumber(b))

\* a > n for a number n
GreaterThan(a, n) == IsGreater(ToNumber(a), n)

\* 0 + v
ZeroPlus(v) ==
    CASE v.t = "number" -> v
      [] v.t = "boolean" -> Num(v.n)
      [] v.t = "string" -> Str("0" \o v.s)
      [] OTHER -> NaN

\* the property key a value turns into when it indexes an object
Key(v) == JSToString(v)

(***************************************************************************)
(* The tokenizer: line.match(/(?:[^\s"]+|"[^"]*")+/g)                      *)
(***************************************************************************)
IsSpace(c) == c \in {" ", "\n", "\t", "\r"}

\* the first position from i on that holds white space or a double quote,
\* Len(s) + 1 when there is none: the end of a run of [^\s"]
RunEnd(s, i) ==
    IF \E j \in i..Len(s) : IsSpace(Ch(s, j)) \/ Ch(s, j) = "\""
    THEN CHOOSE j \in i..Len(s) :
            /\ IsSpace(Ch(s, j)) \/ Ch(s, j) = "\""
            /\ \A k \in i..(j - 1) : ~IsSpace(Ch(s, k)) /\ Ch(s, k) # "\""
    ELSE Len(s) + 1

\* end (exclusive) of the longest match of (?:[^\s"]+|"[^"]*")+ starting at i
RECURSIVE TokenEnd(_, _)
TokenEnd(s, i) ==
    IF i > Len(s) THEN i
    ELSE IF IsSpace(Ch(s, i)) THEN i
    ELSE IF Ch(s, i) = "\""
    THEN LET j == CharIndexFrom(s, "\"", i + 1) IN
         IF j = 0 THEN i ELSE TokenEnd(s, j + 1)
    ELSE TokenEnd(s, RunEnd(s, i))

RECURSIVE MatchFrom(_, _)
MatchFrom(s, i) ==
    IF i > Len(s) THEN <<>>
    ELSE LET e == TokenEnd(s, i) IN
         IF e = i THEN MatchFrom(s, i + 1)
         ELSE <<SubSeq(s, i, e - 1)>> \o MatchFrom(s, e)

\* the tokens of a line; the empty sequence stands for null (no match)
match(s) == MatchFrom(s, 1)

(***************************************************************************)
(* The two schemas and the dictionary files.                               *)
(***************************************************************************)
SCP_PARAMS == <<"Ok", "Command", "Index", "Address", "X", "Y", "Min", "Max",
                "Default", "Unit", "Type", "UI", "RW", "Scale">>
SCP_VALS == <<"Status", "Command", "Address", "X", "Y", "Val", "TxtVal">>

\* 'CL5 SCP Parameters-1.txt': the parameter dictionary of the CL/QL consoles
DictCL ==
    "OK PRM 12 \"MIXER:Current/InCh/Fader/Level\" 72 1 0 1000 0 \"dB\" integer 1 1\n"
 \o "OK PRM 13 \"MIXER:Current/InCh/Fader/On\" 72 1 0 1 1 \"\" integer 1 1\n"
 \o "OK PRM 20 \"MIXER:Current/InCh/Label/Name\" 72 2 0 0 \"\" \"\" string 1 1\n"
 \o "OK PRM 21 \"MIXER:Current/InCh/Label/Color\" 72 2 0 0 \"Blue\" \"\" string 1 1\n"
 \o "OK PRM 30 \"MIXER:Current/St/Fader/On\" 1 2 0 1 1 \"\" integer 1 1\n"
 \o "OK PRM 31 \"MIXER:Current/OmniOut/Label\" 8 1 0 0 \"\" \"\" binary 1 1\n"
 \o "OK PRM 1000 \"MIXER:Lib/Bank/Scene/Recall\" 300 1 0 0 \"\" \"\" scene 1 1\n"

\* 'TF5 SCP Parameters-1.txt': the parameter dictionary of the TF consoles
DictTF ==
    "OK PRM 12 \"MIXER:Current/InCh/Fader/Level\" 40 1 0 1000 0 \"dB\" integer 1 1\n"
 \o "OK PRM 20 \"MIXER:Current/InCh/Fader/On\" 40 1 0 1 1 \"\" integer 1 1\n"
 \o "OK PRM 22 \"MIXER:Current/InCh/Label/Name\" 40 1 0 0 \"\" \"\" string 1 1\n"
 \o "OK PRM 1000 \"scene_\" 100 2 0 0 \"\" \"\" scene 1 1\n"

Models == {"CL/QL", "TF"}

\* FS.readFileSync(`${__dirname}/${fname}`)
readFileSync(model) == IF model = "CL/QL" THEN DictCL ELSE DictTF

(***************************************************************************)
(* parseData                                                               *)
(***************************************************************************)
\* params[j] with a 0-based j; past the end of the schema it is undefined
ParamKey(params, j0) == IF j0 < Len(params) THEN params[j0 + 1] ELSE "undefined"

\* the object the inner loop builds: scpCommand[params[j]] = line[j] unquoted
LineObject(line, params) ==
    [k \in {ParamKey(params, j - 1) : j \in 1..Len(line)} |->
        LET j == CHOOSE m \in 1..Len(line) :
                    /\ ParamKey(params, m - 1) = k
                    /\ \A m2 \in 1..Len(line) :
                          ParamKey(params, m2 - 1) = k => m2 <= m
        IN Str(StripQuotes(line[j]))]

\* The rest of one turn of the loop over lines, for a line of two tokens or
\* more and the object built from it: the push on cmds, and for the
\* dictionary schema the push on nameCommands or colorCommands, which throws
\* when the line has no Address.
parseDataPush(acc, line, params, scpCommand) ==
    [acc EXCEPT
        !.cmds = IF toUpperCase(line[2]) \notin {"GET", "SSCURRENT_EX"}
                 THEN Append(@, scpCommand) ELSE @,
        !.threw = /\ params = SCP_PARAMS
                  /\ Get(scpCommand, "Address").t = "undefined",
        !.names = IF /\ params = SCP_PARAMS
                     /\ SliceLast(Get(scpCommand, "Address").s, 4) = "Name"
                  THEN @ \cup {"scp_" \o JSToString(Get(scpCommand, "Index"))}
                  ELSE @,
        !.colors = IF /\ params = SCP_PARAMS
                      /\ SliceLast(Get(scpCommand, "Address").s, 4) = "olor"
                   THEN @ \cup {"scp_" \o JSToString(Get(scpCommand, "Index"))}
                   ELSE @]

\* One turn of the loop over lines, for the tokens of the line
parseDataTokens(acc, line, params) ==
    IF acc.threw THEN acc
    ELSE IF line = <<>> \/ toUpperCase(line[1]) \notin {"OK", "NOTIFY"} THEN acc
    ELSE IF Len(line) < 2 THEN [acc EXCEPT !.threw = TRUE]
    ELSE parseDataPush(acc, line, params, LineObject(line, params))

\* One turn of the loop over lines, on the accumulator
\* [cmds, names, colors, threw].
parseDataLine(acc, text, params) == parseDataTokens(acc, match(text), params)

RECURSIVE parseDataLoop(_, _, _, _)
parseDataLoop(acc, lines, i, params) ==
    IF i > Len(lines) THEN acc
    ELSE parseDataLoop(parseDataLine(acc, lines[i], params), lines, i + 1, params)

\* parseData(data, params): the commands it returns, the ids it pushes on
\* this.nameCommands and this.colorCommands, and whether it threw.  The two
\* lists are only ever asked for membership (includes), so the pushes are
\* kept as sets.
parseData(data, params) ==
    parseDataLoop([cmds |-> <<>>, names |-> {}, colors |-> {},
                   threw |-> FALSE],
                  split(data, "\n"), 1, params)

(***************************************************************************)
(* updateConfig: the sort of the descriptors                               *)
(***************************************************************************)
\* collation order of the characters that occur in addresses
Collation == " _-,;:!?.'()@*/&#%+0123456789abcdefghijklmnopqrstuvwxyz"

\* a.localeCompare(b) on lower-cased strings: negative, zero or positive
RECURSIVE localeCompare(_, _)
localeCompare(a, b) ==
    IF a = "" /\ b = "" THEN 0
    ELSE IF a = "" THEN -1
    ELSE IF b = "" THEN 1
    ELSE LET x == CharIndex(Collation, Ch(a, 1))
             y == CharIndex(Collation, Ch(b, 1))
         IN  IF x < y THEN -1
             ELSE IF x > y THEN 1
             ELSE localeCompare(SubSeq(a, 2, Len(a)), SubSeq(b, 2, Len(b)))

\* the sort key: the address after its first "/", lower-cased
SortKey(cmd) ==
    LET a == Get(cmd, "Address").s IN
    toLowerCase(SliceFrom(a, CharIndex(a, "/")))

\* insert cmd behind every element that does not sort after it (stable)
RECURSIVE InsertSorted(_, _)
InsertSorted(sorted, cmd) ==
    IF sorted = <<>> THEN <<cmd>>
    ELSE IF localeCompare(SortKey(cmd), SortKey(sorted[Len(sorted)])) < 0
    THEN Append(InsertSorted(SubSeq(sorted, 1, Len(sorted) - 1), cmd),
                sorted[Len(sorted)])
    ELSE Append(sorted, cmd)

RECURSIVE SortCommands(_)
SortCommands(cmds) ==
    IF cmds = <<>> THEN <<>>
    ELSE InsertSorted(SortCommands(SubSeq(cmds, 1, Len(cmds) - 1)),
                      cmds[Len(cmds)])

(***************************************************************************)
(* createAction and actions: the catalog synthesizer                       *)
(***************************************************************************)
\* an option of an action or feedback; fields the option lacks are Undef
Option(type, label, id, min, max, default, choices) ==
    [type |-> type, label |-> label, id |-> id, min |-> min, max |-> max,
     default |-> default, choices |-> choices]

\* arr[i] with a 0-based i
At(arr, i0) == IF i0 >= 0 /\ i0 < Len(arr) THEN Str(arr[i0 + 1]) ELSE Undef

fgOption == Option("colorpicker", Str("Color"), "fg", Undef, Undef,
                   Str("rgb(0,0,0)"), "")
bgOption == Option("colorpicker", Str("Background"), "bg", Undef, Undef,
                   Str("rgb(255,0,0)"), "")

\* the label of the action: the address after "MIXER:Current/"
ActionLabel(model, scpCmd) ==
    IF model = "TF" /\ Get(scpCmd, "Type").s = "scene" THEN "Scene/Bank"
    ELSE SliceFrom(Get(scpCmd, "Address").s,
                   CharIndex(Get(scpCmd, "Address").s, "/"))

\* the options of the action, given its label, the pieces of the label and
\* whether the descriptor has an X and a Y dimension above 1
createOptions(model, scpCmd, scpLabel, scpLabels, hasX, hasY) ==
    LET type == Get(scpCmd, "Type").s
        idx0 == IF startsWith(scpLabel, "Cue") THEN 1 ELSE 0
        optsX == IF ~hasX THEN <<>>
                 ELSE IF startsWith(scpLabel, "InCh")
                         \/ startsWith(scpLabel, "Cue/InCh")
                 THEN <<Option("dropdown", At(scpLabels, idx0), "X", Undef,
                               Undef, Num(1), "chNames")>>
                 ELSE <<Option("number", At(scpLabels, idx0), "X", Num(1),
                               Get(scpCmd, "X"), Num(1), "")>>
        idx1 == IF hasX THEN idx0 + 1 ELSE idx0
        optsY == IF ~hasY THEN <<>>
                 ELSE IF model = "TF" /\ type = "scene"
                 THEN <<Option("dropdown", At(scpLabels, idx1), "Y", Undef,
                               Undef, Str("a"), "AB")>>
                 ELSE <<Option("number", At(scpLabels, idx1), "Y", Num(1),
                               Get(scpCmd, "Y"), Num(1), "")>>
        idx2 == IF idx1 < Len(scpLabels) - 1 THEN idx1 + 1 ELSE idx1
        label == At(scpLabels, idx2)
        default == Get(scpCmd, "Default")
        dropdown(choices) ==
            Option("dropdown", label, "Val", Undef, Undef, default, choices)
        valParams ==
            CASE type = "integer" ->
                    IF LooseEq(Get(scpCmd, "Max"), Num(1))
                    THEN <<Option("checkbox", Str("On"), "Val", Undef, Undef,
                                  Bool(LooseEq(default, Num(1))), "")>>
                    ELSE <<Option("number", label, "Val", Get(scpCmd, "Min"),
                                  Get(scpCmd, "Max"), parseInt(default), "")>>
              [] type \in {"string", "binary"} ->
                    IF startsWith(scpLabel, "CustomFaderBank")
                    THEN <<dropdown("customChNames")>>
                    ELSE IF endsWith(scpLabel, "Color")
                    THEN <<dropdown(IF model = "TF" THEN "chColorsTF"
                                    ELSE "chColors")>>
                    ELSE IF endsWith(scpLabel, "Icon")
                    THEN <<dropdown("chIcons")>>
                    ELSE IF scpLabel = "DanteOutPort/Patch"
                    THEN <<dropdown("danteOutPatch")>>
                    ELSE IF scpLabel = "OmniOutPort/Patch"
                    THEN <<dropdown("omniOutPatch")>>
                    ELSE <<Option("textinput", label, "Val", Undef, Undef,
                                  default, "")>>
              [] OTHER -> <<>>
    IN  [label |-> scpLabel, options |-> optsX \o optsY \o valParams]

\* the action of a descriptor, given its label
createLabelled(model, scpCmd, scpLabel) ==
    createOptions(model, scpCmd, scpLabel, split(scpLabel, "/"),
                  GreaterThan(Get(scpCmd, "X"), 1),
                  GreaterThan(Get(scpCmd, "Y"), 1))

createAction(model, scpCmd) ==
    createLabelled(model, scpCmd, ActionLabel(model, scpCmd))

\* 'scp_' + command.Index
ActionId(cmd) == "scp_" \o JSToString(Get(cmd, "Index"))

\* arr.pop() leaves the array without its last element
Pop(arr) == IF arr = <<>> THEN <<>> ELSE SubSeq(arr, 1, Len(arr) - 1)

\* the last descriptor carrying an id is the one the id ends up with
LastWith(cmds, id) ==
    cmds[CHOOSE i \in 1..Len(cmds) :
            /\ ActionId(cmds[i]) = id
            /\ \A j \in 1..Len(cmds) : ActionId(cmds[j]) = id => j <= i]

\* the commands handed to setActions
ActionCatalog(model, cmds) ==
    [id \in {ActionId(cmds[i]) : i \in 1..Len(cmds)}
            \cup {"macroRecStart", "macroRecStop"} |->
        IF id = "macroRecStart"
        THEN [label |-> "Record SCP Macro", options |-> <<>>]
        ELSE IF id = "macroRecStop"
        THEN [label |-> "Stop Recording", options |-> <<>>]
        ELSE createAction(model, LastWith(cmds, id))]

\* the feedbacks handed to setFeedbackDefinitions: each a clone of the
\* action of the same id, without its last option or with the two colours
FeedbackCatalog(commands, names, colors) ==
    [id \in (DOMAIN commands \ {"macroRecStop"}) |->
        IF id = "macroRecStart"
        THEN [label |-> "Macro is Recording",
              options |-> <<Option("checkbox", Str("ON"), "on", Undef, Undef,
                                   Bool(TRUE), ""),
                            fgOption, bgOption>>]
        ELSE IF id \in names \/ id \in colors
        THEN [commands[id] EXCEPT !.options = Pop(@)]
        ELSE [commands[id] EXCEPT !.options = @ \o <<fgOption, bgOption>>]]

\* what updateConfig reads, parses, sorts and synthesizes for a model; it
\* depends on the model alone
LoadedSorted(m, parsed, sorted) ==
    [parsed |-> parsed, sorted |-> sorted, commands |-> ActionCatalog(m, sorted)]

LoadedParsed(m, parsed) == LoadedSorted(m, parsed, SortCommands(parsed.cmds))

Loaded ==
    [m \in Models |-> LoadedParsed(m, parseData(readFileSync(m), SCP_PARAMS))]

(***************************************************************************)
(* The state of an instance and of its two collaborators.                  *)
(***************************************************************************)
VARIABLES
    config,          \* this.config
    chNames,         \* scpNames.chNames[0..3]: the labels of the four aliases
    scpCommands,     \* this.scpCommands, sorted
    nameCommands,    \* this.nameCommands, as a set of action ids
    colorCommands,   \* this.colorCommands, as a set of action ids
    actionDefs,      \* the catalog last handed to setActions
    feedbackDefs,    \* the catalog last handed to setFeedbackDefinitions
    scpPresets,      \* this.scpPresets
    presetDefs,      \* the list last handed to setPresetDefinitions
    productName,     \* this.productName
    macroRec,        \* this.macroRec
    macroCount,      \* this.macroCount
    dataStore,       \* this.dataStore, keyed by <<id, X key, Y key>>
    socket,          \* this.socket: "none", "connecting" or "connected"
    receivebuffer,   \* receivebuffer of the current socket's data handler
    allFeedbacks,    \* the host's feedback subscriptions (getAllFeedbacks)
    sent,            \* the lines the last handler handed to socket.send
    fault,           \* some handler has ended in an uncaught exception
    lastEvent,       \* the handler that ran last, with its arguments
    nChunks,         \* number of chunks delivered so far
    pending,         \* history: bytes received since the last line break
    refStore         \* history: the cache when every line comes as one chunk

vars == <<config, chNames, scpCommands, nameCommands, colorCommands,
          actionDefs, feedbackDefs, scpPresets, presetDefs, productName,
          macroRec, macroCount, dataStore, socket, receivebuffer,
          allFeedbacks, sent, fault, lastEvent, nChunks, pending, refStore>>

\* this.id, and the id of another instance of the host
ThisId == "scp1"
OtherId == "scp2"

(***************************************************************************)
(* parseCmd and pollScp: the encoder                                       *)
(***************************************************************************)
\* v - 1 left out: the coordinate goes on the wire as the option gave it
Minus1Skipped(v) == ToNumber(v)

\* v - 1
Minus1(v) == Add(ToNumber(v), -1)

\* -v
Negate(v) == Opposite(ToNumber(v))

\* this.scpCommands.find(cmd => 'scp_' + cmd.Index == id): 0 when not found
FindById(cmds, id) ==
    IF \E i \in 1..Len(cmds) : ActionId(cmds[i]) = id
    THEN CHOOSE i \in 1..Len(cmds) :
            /\ ActionId(cmds[i]) = id
            /\ \A j \in 1..(i - 1) : ActionId(cmds[j]) # id
    ELSE 0

\* (opt.X > 0) ? opt.X : this.config[`myCh${-opt.X}`]
AliasX(cfg, optX) ==
    IF GreaterThan(optX, 0) THEN optX
    ELSE Get(cfg, "myCh" \o JSToString(Negate(optX)))

\* `${cmdName} ${optX} ${optY} ${optVal}`.trim()
CmdLine(cmdName, optX, optY, optVal) ==
    Str(trim(cmdName \o " " \o optX \o " " \o optY \o " " \o optVal))

\* parseCmd from its switch on, for the descriptor found and optX and optY
\* as the first lines of the function leave them
parseCmdFound(cfg, prefix, scpCommand, opt, optX0, optY0) ==
    LET type == Get(scpCommand, "Type").s
        address == Get(scpCommand, "Address").s
        Val == Get(opt, "Val")
    IN
    CASE type \in {"integer", "binary"} ->
            [line |-> CmdLine(prefix \o " " \o address,
                              JSToString(Minus1(optX0)), JSToString(optY0),
                              IF prefix = "set" THEN JSToString(ZeroPlus(Val))
                              ELSE ""),
             poll |-> FALSE]
      [] type = "string" ->
            [line |-> CmdLine(prefix \o " " \o address,
                              JSToString(Minus1(optX0)), JSToString(optY0),
                              IF prefix = "set"
                              THEN "\"" \o JSToString(Val) \o "\"" ELSE ""),
             poll |-> FALSE]
      [] type = "scene" ->
            [line |-> CmdLine((IF prefix = "set" THEN "ssrecall_ex"
                               ELSE "sscurrent_ex")
                                \o " " \o address
                                \o (IF Get(cfg, "model") = Str("CL/QL") THEN ""
                                    ELSE JSToString(Get(opt, "Y"))),
                              IF prefix = "set" THEN JSToString(optX0) ELSE "",
                              "", ""),
             poll |-> prefix = "set"]
      [] OTHER ->
            [line |-> CmdLine(address, JSToString(optX0), JSToString(optY0),
                              "undefined"),
             poll |-> FALSE]

\* parseCmd without its return on an id no descriptor carries: the first
\* descriptor stands in for the one not found
parseCmdUnchecked(cfg, cmds, prefix, scpCmd, opt) ==
    IF scpCmd.t = "undefined" \/ opt = Undef \/ cmds = <<>>
    THEN [line |-> Undef, poll |-> FALSE]
    ELSE parseCmdFound(cfg, prefix,
                       cmds[IF FindById(cmds, scpCmd.s) = 0 THEN 1
                            ELSE FindById(cmds, scpCmd.s)],
                       opt,
                       IF Get(opt, "X").t = "undefined" THEN Num(1)
                       ELSE AliasX(cfg, Get(opt, "X")),
                       IF Get(opt, "Y").t = "undefined" THEN Num(0)
                       ELSE Minus1(Get(opt, "Y")))

\* parseCmd(prefix, scpCmd, opt): the line it returns (Undef for none) and
\* whether it called this.pollScp() on the way
parseCmd(cfg, cmds, prefix, scpCmd, opt) ==
    IF scpCmd.t = "undefined" \/ opt = Undef
    THEN [line |-> Undef, poll |-> FALSE]
    ELSE IF FindById(cmds, scpCmd.s) = 0 THEN [line |-> Undef, poll |-> FALSE]
    ELSE parseCmdFound(cfg, prefix, cmds[FindById(cmds, scpCmd.s)], opt,
                       IF Get(opt, "X").t = "undefined" THEN Num(1)
                       ELSE AliasX(cfg, Get(opt, "X")),
                       IF Get(opt, "Y").t = "undefined" THEN Num(0)
                       ELSE Minus1(Get(opt, "Y")))

\* one turn of the loop of pollScp, for the line parseCmd gave; out is
\* [sent, threw].  this.socket.send faults when there is no socket.
pollScpSend(sock, fb, out, cmd) ==
    IF cmd.t # "undefined" /\ fb.instance_id = ThisId
    THEN IF sock = "none" THEN [out EXCEPT !.threw = TRUE]
         ELSE [out EXCEPT !.sent = Append(@, cmd.s)]
    ELSE out

\* the loop of pollScp over the subscriptions from the i-th on
RECURSIVE pollScpLoop(_, _, _, _, _, _)
pollScpLoop(cfg, cmds, sock, fbs, i, out) ==
    IF i > Len(fbs) \/ out.threw THEN out
    ELSE pollScpLoop(cfg, cmds, sock, fbs, i + 1,
            pollScpSend(sock, fbs[i], out,
                        parseCmd(cfg, cmds, "get", Str(fbs[i].type),
                                 fbs[i].options).line))

pollScp(cfg, cmds, sock, fbs) ==
    pollScpLoop(cfg, cmds, sock, fbs, 1, [sent |-> <<>>, threw |-> FALSE])

(***************************************************************************)
(* addToDataStore and addMacro                                             *)
(***************************************************************************)
EmptyStore == [k \in {} |-> Undef]

\* v + 1
Plus1(v) == Add(ToNumber(v), 1)

\* if (cmd.cmd.Val == undefined): the value came in the place of X
ValFromX(cmd) ==
    IF Get(cmd, "Val").t = "undefined"
    THEN Put(Put(cmd, "Val", parseInt(Get(cmd, "X"))), "X", Undef)
    ELSE cmd

\* cmd.cmd.k = (cmd.cmd.k == undefined) ? 0 : cmd.cmd.k
ZeroIfAbsent(cmd, k) ==
    Put(cmd, k, IF Get(cmd, k).t = "undefined" THEN Num(0) ELSE Get(cmd, k))

\* the assignment to the cache skipped when the coordinate holds a value
StoreAtKeepFirst(store, idx, cmd, iX, iY) ==
    [store |-> [x \in DOMAIN store
                        \cup {<<"scp_" \o JSToString(idx), Key(iX), Key(iY)>>}
                    |-> IF x \in DOMAIN store THEN store[x]
                        ELSE Get(cmd, "Val")],
     cmd |-> cmd]

\* this.dataStore['scp_' + idx][iX][iY] = cmd.cmd.Val
StoreAt(store, idx, cmd, iX, iY) ==
    [store |-> [x \in DOMAIN store
                        \cup {<<"scp_" \o JSToString(idx), Key(iX), Key(iY)>>}
                    |-> IF x = <<"scp_" \o JSToString(idx), Key(iX), Key(iY)>>
                        THEN Get(cmd, "Val") ELSE store[x]],
     cmd |-> cmd]

\* addToDataStore without the step to 1-based coordinates
ZeroBasedAt(store, scp, cmd) ==
    StoreAt(store, Get(scp, "Index"), cmd,
            parseInt(Get(cmd, "X")), parseInt(Get(cmd, "Y")))

addToDataStoreZeroBased(cfg, store, scp, cmd) ==
    ZeroBasedAt(store, scp,
                ZeroIfAbsent(ZeroIfAbsent(ValFromX(cmd), "X"), "Y"))

\* addToDataStore from the default of Y on, for other than TF scenes
addToDataStoreY(store, scp, cmd) ==
    StoreAt(store, Get(scp, "Index"), cmd,
            Plus1(parseInt(Get(cmd, "X"))), Plus1(parseInt(Get(cmd, "Y"))))

\* addToDataStore from iX on
addToDataStoreX(cfg, store, scp, cmd) ==
    IF Get(cfg, "model") = Str("TF") /\ LooseEq(Get(scp, "Index"), Num(1000))
    THEN StoreAt(store, Get(scp, "Index"), cmd,
                 Plus1(parseInt(Get(cmd, "X"))),
                 Str(SliceLast(Get(cmd, "Address").s, 1)))
    ELSE addToDataStoreY(store, scp, ZeroIfAbsent(cmd, "Y"))

\* addToDataStore({scp, cmd}): the store and the received command, which the
\* function changes in place, after the call
addToDataStore(cfg, store, scp, cmd) ==
    addToDataStoreX(cfg, store, scp, ZeroIfAbsent(ValFromX(cmd), "X"))

\* the predicate of scpActions.findIndex(...) of addMacro
ActionHit(a, id, cX, cY) ==
    /\ a.action = id
    /\ LooseEq(Get(a.options, "X"), cX)
    /\ LooseEq(Get(a.options, "Y"), cY)

\* scpActions.findIndex(...) of addMacro, 1-based, 0 when not found
FindAction(scpActions, id, cX, cY) ==
    IF \E i \in 1..Len(scpActions) : ActionHit(scpActions[i], id, cX, cY)
    THEN CHOOSE i \in 1..Len(scpActions) :
            /\ ActionHit(scpActions[i], id, cX, cY)
            /\ \A j \in 1..(i - 1) : ~ActionHit(scpActions[j], id, cX, cY)
    ELSE 0

\* cX and cY of addMacro
MacroCoord(scp, v) ==
    IF Get(scp, "Type").s \in {"integer", "binary", "string"}
    THEN Plus1(parseInt(v))
    ELSE parseInt(v)

\* cV of addMacro
MacroVal(scp, cmd) ==
    CASE Get(scp, "Type").s \in {"integer", "binary"} ->
            IF LooseEq(Get(scp, "Max"), Num(1))
            THEN Bool(~LooseEq(Get(cmd, "Val"), Num(0)))
            ELSE parseInt(Get(cmd, "Val"))
      [] Get(scp, "Type").s = "string" -> Get(cmd, "Val")
      [] OTHER -> Undef

\* the action recorded: a new one, or the one found replaced
addMacroAt(presets, entry, found) ==
    [presets EXCEPT ![Len(presets)].actions =
        IF found = 0 THEN Append(@, entry)
        ELSE [@ EXCEPT ![found] = entry]]

\* addMacro while recording, for the coordinates and value worked out
addMacroWith(presets, id, cX, cY, cV) ==
    addMacroAt(presets,
               [action |-> id,
                options |-> [k \in {"X", "Y", "Val"} |->
                                IF k = "X" THEN cX
                                ELSE IF k = "Y" THEN cY ELSE cV]],
               FindAction(presets[Len(presets)].actions, id, cX, cY))

\* addMacro({scp, cmd}): this.scpPresets after the call
addMacro(presets, rec, scp, cmd) ==
    IF ~rec THEN presets
    ELSE addMacroWith(presets, ActionId(scp),
                      MacroCoord(scp, Get(cmd, "X")),
                      MacroCoord(scp, Get(cmd, "Y")),
                      MacroVal(scp, cmd))

(***************************************************************************)
(* feedback: the evaluator                                                 *)
(***************************************************************************)
\* scpNames.chColorRGB: the palette, colour name to colour pair
ChColorRGB ==
    [c \in {"Blue", "Red"} |->
        IF c = "Blue" THEN [color |-> Str("rgb(255,255,255)"),
                            bgcolor |-> Str("rgb(0,0,255)")]
        ELSE [color |-> Str("rgb(255,255,255)"),
              bgcolor |-> Str("rgb(255,0,0)")]]

\* this.dataStore[id][kx][ky]
StoreGet(store, id, kx, ky) ==
    IF <<id, kx, ky>> \in DOMAIN store THEN store[<<id, kx, ky>>] ELSE Undef

\* this.dataStore[id] !== undefined && this.dataStore[id][kx] !== undefined
StoreHasX(store, id, kx) ==
    \E k \in DOMAIN store : k[1] = id /\ k[2] = kx

\* what feedback() hands back: nothing, a render directive, or a fault
NoDirective ==
    [kind |-> "none", matched |-> FALSE, text |-> Undef, color |-> Undef,
     bgcolor |-> Undef]
Directive(matched, text, color, bgcolor) ==
    [kind |-> "directive", matched |-> matched, text |-> text,
     color |-> color, bgcolor |-> bgcolor]
Fault == [NoDirective EXCEPT !.kind = "fault"]

\* the X coordinate feedback() looks the cache up at
feedbackX(cfg, options) == AliasX(cfg, Get(options, "X"))

feedback(cfg, cmds, names, colors, store, rec, fb, bank) ==
    LET options == fb.options
        found == FindById(cmds, fb.type)
        scpCommand == cmds[found]
        Val == Get(options, "Val")
        optVal == IF Val.t = "undefined" THEN Get(options, "X")
                  ELSE IF Get(scpCommand, "Type") = Str("integer")
                  THEN ZeroPlus(Val)
                  ELSE Str(JSToString(Val))
        optX == feedbackX(cfg, options)
        optY == IF Get(options, "Y").t = "undefined" THEN Num(1)
                ELSE Get(options, "Y")
        cached == StoreGet(store, fb.type, Key(optX), Key(optY))
    IN
    IF found # 0
    THEN IF StoreHasX(store, fb.type, Key(optX))
         THEN IF LooseEq(cached, optVal)
              THEN Directive(TRUE,
                             IF Get(options, "text").t = "undefined"
                             THEN bank.text ELSE Get(options, "text"),
                             Get(options, "fg"), Get(options, "bg"))
              ELSE IF fb.type \in colors
              THEN IF Key(cached) \in DOMAIN ChColorRGB
                   THEN Directive(FALSE, bank.text,
                                  ChColorRGB[Key(cached)].color,
                                  ChColorRGB[Key(cached)].bgcolor)
                   ELSE Fault
              ELSE IF fb.type \in names
              THEN Directive(FALSE, cached, bank.color, bank.bgcolor)
              ELSE NoDirective
         ELSE NoDirective
    ELSE IF fb.type = "macroRecStart"
            /\ LooseEq(Get(options, "on"), Bool(rec))
    THEN Directive(FALSE, Undef, Get(options, "fg"), Get(options, "bg"))
    ELSE NoDirective

(***************************************************************************)
(* init_tcp: the handler of the socket's 'data' event                      *)
(***************************************************************************)
\* s.indexOf(sub) !== -1
Contains(s, sub) ==
    \E i \in 1..(Len(s) - Len(sub) + 1) : SubSeq(s, i, i + Len(sub) - 1) = sub

\* cmd.Address == received.Address.slice(0, cmd.Address.length)
AddressHit(c, address) ==
    Get(c, "Address").s = SliceTo(address, Len(Get(c, "Address").s))

\* this.scpCommands.find(cmd => cmd.Address ==
\*     received.Address.slice(0, cmd.Address.length)): 0 when not found
FindByAddress(cmds, address) ==
    IF \E i \in 1..Len(cmds) : AddressHit(cmds[i], address)
    THEN CHOOSE i \in 1..Len(cmds) :
            /\ AddressHit(cmds[i], address)
            /\ \A j \in 1..(i - 1) : ~AddressHit(cmds[j], address)
    ELSE 0

\* the branch for a descriptor found, after addToDataStore: addMacro gets
\* the command as addToDataStore left it
receivedStored(st, rec, scp, stored) ==
    [st EXCEPT !.dataStore = stored.store,
               !.scpPresets = addMacro(@, rec, scp, stored.cmd)]

\* one turn of the loop over receivedcmds, for what find gave
receivedFound(cfg, cmds, rec, cmd, st, found) ==
    IF found = 0 THEN st
    ELSE receivedStored(st, rec, cmds[found],
                        addToDataStore(cfg, st.dataStore, cmds[found], cmd))

\* one turn of the loop over receivedcmds; the callback of find throws on a
\* command without Address
receivedCmd(cfg, cmds, rec, cmd, st) ==
    IF Get(cmd, "Address").t = "undefined" /\ cmds # <<>>
    THEN [st EXCEPT !.threw = TRUE]
    ELSE receivedFound(cfg, cmds, rec, cmd, st,
                       FindByAddress(cmds, Get(cmd, "Address").s))

\* the loop over receivedcmds; st is [dataStore, scpPresets, productName,
\* threw]
RECURSIVE receivedLoop(_, _, _, _, _, _)
receivedLoop(cfg, cmds, rec, received, i, st) ==
    IF i > Len(received) \/ st.threw THEN st
    ELSE receivedLoop(cfg, cmds, rec, received, i + 1,
                      receivedCmd(cfg, cmds, rec, received[i], st))

\* the body of the loop over receivedLines from parseData on
dataParsed(cfg, cmds, rec, st, parsed) ==
    IF parsed.threw THEN [st EXCEPT !.threw = TRUE]
    ELSE receivedLoop(cfg, cmds, rec, parsed.cmds, 1, st)

\* the body of the loop over receivedLines, for one line
dataLine(cfg, cmds, rec, buffer, line, st) ==
    IF st.threw \/ Len(line) = 0 THEN st
    ELSE IF Contains(line, "OK devinfo productname")
    THEN [st EXCEPT !.productName =
                SliceFrom(line, LastCharIndex(buffer, " ") - 1)]
    ELSE dataParsed(cfg, cmds, rec, st, parseData(line, SCP_VALS))

RECURSIVE dataLoop(_, _, _, _, _, _, _)
dataLoop(cfg, cmds, rec, buffer, lines, i, st) ==
    IF i > Len(lines) THEN st
    ELSE dataLoop(cfg, cmds, rec, buffer, lines, i + 1,
                  dataLine(cfg, cmds, rec, buffer, lines[i], st))

\* the end of the handler: the buffer is cleared unless the loop threw
dataDone(buffer, out) ==
    [dataStore |-> out.dataStore, scpPresets |-> out.scpPresets,
     productName |-> out.productName, threw |-> out.threw,
     receivebuffer |-> IF out.threw THEN buffer ELSE ""]

\* the 'data' handler from the split of the buffer on
onBuffer(cfg, cmds, rec, buffer, st) ==
    dataDone(buffer,
             dataLoop(cfg, cmds, rec, buffer, split(buffer, "\n"), 1, st))

\* the 'data' handler on a chunk: the state it leaves behind
onData(cfg, cmds, rec, buffer0, chunk, st) ==
    onBuffer(cfg, cmds, rec, buffer0 \o chunk, st)

(***************************************************************************)
(* The inputs: configurations, invocations, subscriptions, inbound text.   *)
(***************************************************************************)
Obj1(k1, v1) == [k \in {k1} |-> v1]
Obj2(k1, v1, k2, v2) == Put(Obj1(k1, v1), k2, v2)
Obj3(k1, v1, k2, v2, k3, v3) == Put(Obj2(k1, v1, k2, v2), k3, v3)

\* a configuration as the web form stores it
Config(model, host) ==
    [k \in {"host", "model", "myCh1", "myCh2", "myCh3", "myCh4",
            "myChName1", "myChName2", "myChName3", "myChName4"} |->
        CASE k = "host" -> Str(host)
          [] k = "model" -> Str(model)
          [] k = "myCh1" -> Num(7)
          [] k \in {"myCh2", "myCh3", "myCh4"} -> Num(1)
          [] OTHER -> Str("My Channel " \o SliceLast(k, 1))]

Configs == {Config(m, h) : m \in Models, h \in {"192.168.0.128", ""}}

\* the invocations the host makes: {action, options}
ActionCalls ==
    { [action |-> "scp_12", options |-> Obj2("X", Num(5), "Val", Num(250))],
      [action |-> "scp_20",
       options |-> Obj3("X", Num(5), "Y", Num(2), "Val", Str("Kick"))],
      [action |-> "scp_31", options |-> Obj2("X", Num(2), "Val", Str("abc"))],
      [action |-> "scp_30", options |-> Obj2("Y", Num(2), "Val", Bool(TRUE))],
      [action |-> "scp_13", options |-> Obj2("X", Num(1), "Val", Bool(TRUE))],
      [action |-> "scp_1000", options |-> Obj1("X", Num(5))],
      [action |-> "scp_1000", options |-> Obj2("X", Num(5), "Y", Str("a"))],
      [action |-> "scp_99", options |-> Obj2("X", Num(5), "Val", Num(250))],
      [action |-> "macroRecStart", options |-> EmptyObj],
      [action |-> "macroRecStop", options |-> EmptyObj] }

Colours == Obj2("fg", Str("rgb(0,0,0)"), "bg", Str("rgb(255,0,0)"))

WithColours(o) == [k \in DOMAIN o \cup DOMAIN Colours |->
                      IF k \in DOMAIN o THEN o[k] ELSE Colours[k]]

Subscription(type, options, instance) ==
    [type |-> type, options |-> options, instance_id |-> instance]

\* the subscriptions the host may hold for its buttons
Subscriptions ==
    { Subscription("scp_12",
                   WithColours(Obj2("X", Num(5), "Val", Num(250))), ThisId),
      Subscription("scp_30",
                   WithColours(Obj2("Y", Num(1), "Val", Bool(TRUE))), ThisId),
      Subscription("scp_20", Obj2("X", Num(5), "Y", Num(1)), ThisId),
      Subscription("scp_12",
                   WithColours(Obj2("X", Num(1), "Val", Num(0))), OtherId) }

\* the host fills the options of an invocation or a subscription from the
\* option list of its catalog entry: one value per option, of the kind the
\* option's input gives; an id the catalog lacks is not constrained
Fits(defs, id, options) ==
    id \in DOMAIN defs =>
        LET opts == defs[id].options IN
        /\ DOMAIN options = {opts[i].id : i \in 1..Len(opts)}
        /\ \A i \in 1..Len(opts) :
            opts[i].id = "Val" =>
                options["Val"].t = (CASE opts[i].type = "checkbox" -> "boolean"
                                      [] opts[i].type = "number" -> "number"
                                      [] OTHER -> "string")

\* the button a subscription sits on
Bank == [text |-> Str("Ch 5"), color |-> Str("rgb(255,255,255)"),
         bgcolor |-> Str("rgb(0,0,0)")]

\* lines a console may send, without their line break
LevelLine == "NOTIFY set MIXER:Current/InCh/Fader/Level 4 0 250"
BareLevelLine == "NOTIFY MIXER:Current/InCh/Fader/Level 4 0 250"
StOnLine == "NOTIFY set MIXER:Current/St/Fader/On 0 0 1"
NameLine == "NOTIFY set MIXER:Current/InCh/Label/Name 4 1 \"Kick\""
ColorLine == "NOTIFY set MIXER:Current/InCh/Label/Color 4 1 \"Red\""
SceneLine == "OK ssrecall_ex scene_a 5"
UnknownLine == "NOTIFY set MIXER:Current/Unknown/On 0 0 1"
DevinfoLine == "OK devinfo productname CL5"
NameFiveLine == "NOTIFY set MIXER:Current/InCh/Label/Name 4 0 \"5\""
FaderOffLine == "NOTIFY set MIXER:Current/InCh/Fader/On 4 0 0"
LevelDownLine == "NOTIFY set MIXER:Current/InCh/Fader/Level 4 0 -100"
OffsetLine == "NOTIFY set MIXER:Current/InCh/Fader/LevelOffset 4 0 3"

Lines == {LevelLine, BareLevelLine, StOnLine, NameLine, ColorLine, SceneLine,
          UnknownLine, DevinfoLine, "OK", NameFiveLine, FaderOffLine,
          LevelDownLine, OffsetLine}

\* the position LevelLine is cut at when it comes in two chunks
CutAt == Len(LevelLine) - 1

\* chunks as the transport may deliver them: a line each, lines run
\* together, and a line cut in two
Chunks ==
    {l \o "\n" : l \in Lines}
    \cup { LevelLine \o "\n" \o StOnLine \o "\n",
           "OK\n" \o LevelLine \o "\n",
           DevinfoLine \o "\n" \o LevelLine \o "\n",
           LevelLine \o "\n" \o DevinfoLine \o "\n",
           SubSeq(LevelLine, 1, CutAt),
           SubSeq(LevelLine, CutAt + 1, Len(LevelLine)) \o "\n" }

\* the invocations of the button `Create SCP Macro`: press and release
MacroCalls ==
    { [action |-> "macroRecStart", options |-> EmptyObj],
      [action |-> "macroRecStop", options |-> EmptyObj] }

\* reports of a console while a macro is recorded: a fader moved twice, a
\* switch, a name, a scene recalled, and a command the dictionary lacks
MacroChunks ==
    {l \o "\n" : l \in {LevelLine, LevelDownLine, FaderOffLine, NameLine,
                        SceneLine, UnknownLine}}

\* values a console reports in its reply to a get
ReplyVals == {"250", "1"}

\* lines a dictionary file may hold: three descriptors, the address of the
\* first a proper prefix of the address of the third, and lines that start
\* like a descriptor but break off early
DictLevel ==
    "OK PRM 12 \"MIXER:Current/InCh/Fader/Level\" 72 1 0 1000 0 \"dB\" integer 1 1"
DictOn ==
    "OK PRM 13 \"MIXER:Current/InCh/Fader/On\" 72 1 0 1 1 \"\" integer 1 1"
DictOffset ==
    "OK PRM 14 \"MIXER:Current/InCh/Fader/LevelOffset\" 72 1 0 10 0 \"\" integer 1 1"

BrokenLines == {"OK", "OK PRM 13"}

\* the lines of the dictionary file, as the disk may hold them
DictFiles ==
    { <<DictLevel, DictOn>>,
      <<"Yamaha SCP parameters", DictLevel, "", DictOn>>,
      <<DictLevel, "OK", DictOn>>,
      <<DictLevel, "OK PRM 13", DictOn>>,
      <<DictOffset, DictOn, DictLevel>> }

\* the text of a file: its lines, each ended by a line break
RECURSIVE FileText(_)
FileText(lines) ==
    IF lines = <<>> THEN ""
    ELSE lines[1] \o "\n" \o FileText(SubSeq(lines, 2, Len(lines)))

(***************************************************************************)
(* Init: the instance after its constructor.                               *)
(***************************************************************************)
Event(kind, action, options, chunk) ==
    [kind |-> kind, action |-> action, options |-> options, chunk |-> chunk]

Init ==
    /\ config \in Configs
    /\ chNames = <<>>
    /\ scpCommands = <<>>
    /\ nameCommands = {}
    /\ colorCommands = {}
    /\ actionDefs = EmptyObj
    /\ feedbackDefs = EmptyObj
    /\ scpPresets = <<>>
    /\ presetDefs = <<>>
    /\ productName = ""
    /\ macroRec = FALSE
    /\ macroCount = 0
    /\ dataStore = EmptyStore
    /\ socket = "none"
    /\ receivebuffer = ""
    /\ allFeedbacks = <<>>
    /\ sent = <<>>
    /\ fault = FALSE
    /\ lastEvent = Event("constructor", "", EmptyObj, "")
    /\ nChunks = 0
    /\ pending = ""
    /\ refStore = EmptyStore

\* the instance has been started and not deleted
Running == lastEvent.kind \notin {"constructor", "destroy"}

(***************************************************************************)
(* updateConfig, newConsole, presets, init_tcp                             *)
(***************************************************************************)
\* the fixed preset that presets() builds
CreatePreset ==
    [label |-> "Create SCP Macro",
     actions |-> <<[action |-> "macroRecStart", options |-> EmptyObj]>>,
     release_actions |-> <<[action |-> "macroRecStop", options |-> EmptyObj]>>]

\* the preset macroRecStart pushes
MacroPreset(n) ==
    [label |-> "Macro " \o IntToStr(n), actions |-> <<>>,
     release_actions |-> <<>>]

\* updateConfig(c), with newConsole, actions, presets and init_tcp
updateConfigLoaded(c, loaded) ==
    /\ config' = c
    /\ nameCommands' = nameCommands \cup loaded.parsed.names
    /\ colorCommands' = colorCommands \cup loaded.parsed.colors
    /\ IF loaded.parsed.threw
       THEN /\ fault' = TRUE
            /\ UNCHANGED <<chNames, scpCommands, actionDefs, feedbackDefs,
                           scpPresets, presetDefs, socket, receivebuffer,
                           pending>>
       ELSE /\ fault' = fault
            /\ scpCommands' = loaded.sorted
            /\ chNames' = [i \in 1..4 |->
                              Get(c, "myChName" \o IntToStr(i))]
            /\ actionDefs' = loaded.commands
            /\ feedbackDefs' =
                    FeedbackCatalog(loaded.commands,
                                    nameCommands \cup loaded.parsed.names,
                                    colorCommands \cup loaded.parsed.colors)
            /\ scpPresets' = <<CreatePreset>>
            /\ presetDefs' = <<CreatePreset>>
            /\ socket' = IF Get(c, "host").s # "" THEN "connecting"
                         ELSE "none"
            /\ receivebuffer' = ""
            /\ pending' = ""
    /\ sent' = <<>>
    /\ UNCHANGED <<productName, macroRec, macroCount, dataStore,
                   allFeedbacks, nChunks, refStore>>

\* updateConfig(c), from the dictionary of the model c selects
updateConfigBody(c) == updateConfigLoaded(c, Loaded[Get(c, "model").s])

\* init(): the host starts the instance
init ==
    /\ lastEvent.kind = "constructor"
    /\ updateConfigBody(config)
    /\ lastEvent' = Event("init", "", EmptyObj, "")

\* updateConfig(config): the host hands over a changed configuration
updateConfig ==
    /\ Running
    /\ \E c \in Configs :
        /\ updateConfigBody(c)
        /\ lastEvent' = Event("updateConfig", "", EmptyObj, "")

\* what updateConfig reads, parses, sorts and synthesizes from each of
\* DictFiles, for each model
LoadedFrom ==
    [m \in Models |->
        [f \in DictFiles |->
            LoadedParsed(m, parseData(FileText(f), SCP_PARAMS))]]

\* updateConfig(config) with the dictionary file of the model replaced on
\* disk by one of DictFiles
updateConfigFile ==
    /\ Running
    /\ \E c \in Configs, f \in DictFiles :
        /\ updateConfigLoaded(c, LoadedFrom[Get(c, "model").s][f])
        /\ lastEvent' = Event("updateConfig", "", EmptyObj, FileText(f))

\* destroy(): the host deletes the instance
destroy ==
    /\ Running
    /\ socket' = IF socket = "none" THEN "none" ELSE "destroyed"
    /\ sent' = <<>>
    /\ lastEvent' = Event("destroy", "", EmptyObj, "")
    /\ UNCHANGED <<config, chNames, scpCommands, nameCommands, colorCommands,
                   actionDefs, feedbackDefs, scpPresets, presetDefs,
                   productName, macroRec, macroCount, dataStore,
                   receivebuffer, allFeedbacks, fault, nChunks, pending,
                   refStore>>

(***************************************************************************)
(* The socket's events.                                                    *)
(***************************************************************************)
WithBreak(lines) == [i \in 1..Len(lines) |-> lines[i] \o "\n"]

\* socket.on('connect'): getConsoleInfo and pollScp
connect ==
    /\ Running
    /\ socket = "connecting"
    /\ socket' = "connected"
    /\ sent' = <<"devinfo productname\n">>
                \o WithBreak(pollScp(config, scpCommands, "connected",
                                     allFeedbacks).sent)
    /\ lastEvent' = Event("connect", "", EmptyObj, "")
    /\ UNCHANGED <<config, chNames, scpCommands, nameCommands, colorCommands,
                   actionDefs, feedbackDefs, scpPresets, presetDefs,
                   productName, macroRec, macroCount, dataStore,
                   receivebuffer, allFeedbacks, fault, nChunks, pending,
                   refStore>>

\* socket.on('error'): the connection is lost, the transport dials again
error ==
    /\ Running
    /\ socket = "connected"
    /\ socket' = "connecting"
    /\ sent' = <<>>
    /\ lastEvent' = Event("error", "", EmptyObj, "")
    /\ UNCHANGED <<config, chNames, scpCommands, nameCommands, colorCommands,
                   actionDefs, feedbackDefs, scpPresets, presetDefs,
                   productName, macroRec, macroCount, dataStore,
                   receivebuffer, allFeedbacks, fault, nChunks, pending,
                   refStore>>

\* the cache as the complete lines of a text leave it when each of them is
\* delivered as a chunk of its own
RECURSIVE lineByLine(_, _, _)
lineByLine(store, lines, i) ==
    IF i >= Len(lines) THEN store
    ELSE lineByLine(
            onData(config, scpCommands, FALSE, "", lines[i] \o "\n",
                   [dataStore |-> store, scpPresets |-> <<CreatePreset>>,
                    productName |-> "", threw |-> FALSE]).dataStore,
            lines, i + 1)

\* the last element of a sequence
Last(seq) == seq[Len(seq)]

\* socket.on('data') on a chunk, given what the handler leaves behind
dataOut(chunk, out) ==
    /\ Running
    /\ socket = "connected"
    /\ nChunks < MaxChunks
    /\ nChunks' = nChunks + 1
    /\ dataStore' = out.dataStore
    /\ scpPresets' = out.scpPresets
    /\ productName' = out.productName
    /\ receivebuffer' = out.receivebuffer
    /\ fault' = (fault \/ out.threw)
    /\ sent' = <<>>
    /\ pending' = Last(split(pending \o chunk, "\n"))
    /\ refStore' = lineByLine(refStore, split(pending \o chunk, "\n"), 1)
    /\ UNCHANGED <<config, chNames, scpCommands, nameCommands, colorCommands,
                   actionDefs, feedbackDefs, presetDefs, macroRec, macroCount,
                   socket, allFeedbacks>>

\* socket.on('data') on a chunk
dataBody(chunk) ==
    dataOut(chunk,
            onData(config, scpCommands, macroRec, receivebuffer, chunk,
                   [dataStore |-> dataStore, scpPresets |-> scpPresets,
                    productName |-> productName, threw |-> FALSE]))

\* one of these chunks arrives from the console
dataOf(chunks) ==
    \E chunk \in chunks :
        /\ dataBody(chunk)
        /\ lastEvent' = Event("data", "", EmptyObj, chunk)

\* a chunk arrives from the console
data == dataOf(Chunks)

\* the console acknowledges the line the last action sent by echoing it
echo ==
    /\ lastEvent.kind = "action"
    /\ sent # <<>>
    /\ \E status \in {"OK", "NOTIFY"} :
        LET chunk == status \o " " \o sent[Len(sent)] IN
        /\ dataBody(chunk)
        /\ lastEvent' = [lastEvent EXCEPT !.kind = "echo", !.chunk = chunk]

\* the console answers a get of the last poll with the value it holds
replyChunk(fb, cmd, chunk) ==
    /\ cmd.t # "undefined"
    /\ fb.instance_id = ThisId
    /\ \E j \in 1..Len(sent) : sent[j] = cmd.s \o "\n"
    /\ dataBody(chunk)
    /\ lastEvent' = Event("reply", fb.type, fb.options, chunk)

\* the reply to the get line cmd of a subscription, reporting the value v
replyTo(fb, v, cmd) ==
    replyChunk(fb, cmd, "OK " \o cmd.s \o " " \o v \o "\n")

reply ==
    \E i \in 1..Len(allFeedbacks), v \in ReplyVals :
        replyTo(allFeedbacks[i], v,
                parseCmd(config, scpCommands, "get",
                         Str(allFeedbacks[i].type),
                         allFeedbacks[i].options).line)

(***************************************************************************)
(* action: the host invokes an action.                                     *)
(***************************************************************************)
\* action(a), given what parseCmd returned and what its pollScp sent
actionPolled(a, cmd, poll) ==
    /\ Running
    /\ Fits(actionDefs, a.action, a.options)
    /\ lastEvent' = Event("action", a.action, a.options, "")
    /\ UNCHANGED <<config, chNames, scpCommands, nameCommands, colorCommands,
                   actionDefs, feedbackDefs, productName, dataStore, socket,
                   receivebuffer, allFeedbacks, nChunks, pending, refStore>>
    /\ IF ~startsWith(a.action, "macro")
       THEN /\ fault' = (fault \/ poll.threw)
            /\ sent' = WithBreak(poll.sent)
                        \o (IF ~poll.threw /\ cmd.line.t # "undefined"
                               /\ socket = "connected"
                            THEN <<cmd.line.s \o "\n">> ELSE <<>>)
            /\ UNCHANGED <<scpPresets, presetDefs, macroRec, macroCount>>
       ELSE /\ UNCHANGED <<fault>>
            /\ sent' = <<>>
            /\ IF a.action = "macroRecStart" /\ macroRec = FALSE
               THEN /\ macroCount < MaxMacro
                    /\ macroCount' = macroCount + 1
                    /\ scpPresets' = Append(scpPresets,
                                            MacroPreset(macroCount + 1))
                    /\ macroRec' = TRUE
                    /\ UNCHANGED presetDefs
               ELSE IF a.action = "macroRecStop"
               THEN /\ macroRec' = FALSE
                    /\ IF Len(Last(scpPresets).actions) > 0
                       THEN /\ presetDefs' = scpPresets
                            /\ UNCHANGED <<scpPresets, macroCount>>
                       ELSE /\ scpPresets' = Pop(scpPresets)
                            /\ macroCount' = 0
                            /\ UNCHANGED presetDefs
               ELSE UNCHANGED <<scpPresets, presetDefs, macroRec, macroCount>>

\* action(a), given what parseCmd returned
actionParsed(a, cmd) ==
    actionPolled(a, cmd,
                 IF cmd.poll
                 THEN pollScp(config, scpCommands, socket, allFeedbacks)
                 ELSE [sent |-> <<>>, threw |-> FALSE])

\* the host makes one of these invocations
actionOf(calls) ==
    \E a \in calls :
        actionParsed(a, parseCmd(config, scpCommands, "set", Str(a.action),
                                 a.options))

action == actionOf(ActionCalls)

\* the host registers a feedback subscription on a button
addFeedback ==
    /\ Running
    /\ Len(allFeedbacks) < MaxFeedbacks
    /\ \E f \in Subscriptions :
        /\ Fits(feedbackDefs, f.type, f.options)
        /\ allFeedbacks' = Append(allFeedbacks, f)
    /\ sent' = <<>>
    /\ lastEvent' = Event("addFeedback", "", EmptyObj, "")
    /\ UNCHANGED <<config, chNames, scpCommands, nameCommands, colorCommands,
                   actionDefs, feedbackDefs, scpPresets, presetDefs,
                   productName, macroRec, macroCount, dataStore, socket,
                   receivebuffer, fault, nChunks, pending, refStore>>

\* every handler of the instance
Next ==
    \/ init
    \/ updateConfig
    \/ destroy
    \/ connect
    \/ error
    \/ data
    \/ echo
    \/ reply
    \/ action
    \/ addFeedback
    \/ updateConfigFile

Spec == Init /\ [][Next]_vars

\* the inbound path: configuration changes and chunks from the console
NextInbound ==
    \/ init
    \/ updateConfig
    \/ destroy
    \/ connect
    \/ error
    \/ data

SpecInbound == Init /\ [][NextInbound]_vars

\* the codec: invocations and the console's acknowledgements
NextCodec ==
    \/ init
    \/ connect
    \/ action
    \/ echo

SpecCodec == Init /\ [][NextCodec]_vars

\* polling: subscriptions, invocations and the console's replies
NextPoll ==
    \/ init
    \/ addFeedback
    \/ connect
    \/ action
    \/ reply

SpecPoll == Init /\ [][NextPoll]_vars

\* the dictionary: what the file on disk holds, and chunks from the console
NextDict ==
    \/ init
    \/ updateConfigFile
    \/ connect
    \/ data

SpecDict == Init /\ [][NextDict]_vars

\* the macro recorder: the two macro invocations, reports of the console
\* and configuration changes
NextMacro ==
    \/ init
    \/ updateConfig
    \/ connect
    \/ actionOf(MacroCalls)
    \/ dataOf(MacroChunks)

SpecMacro == Init /\ [][NextMacro]_vars

(***************************************************************************)
(* Properties.                                                             *)
(***************************************************************************)
\* feedback() on a subscription in the current state
Evaluate(fb) ==
    feedback(config, scpCommands, nameCommands, colorCommands, dataStore,
             macroRec, fb, Bank)

\* the descriptor an id names in the loaded dictionary, if any
Known(id) == FindById(scpCommands, id) # 0
TypeOf(id) == Get(scpCommands[FindById(scpCommands, id)], "Type").s
AddressOf(id) == Get(scpCommands[FindById(scpCommands, id)], "Address").s

\* the last handler was the data handler, on this chunk, and ran to its end
Processed(chunk) ==
    /\ lastEvent.kind = "data"
    /\ lastEvent.chunk = chunk
    /\ receivebuffer = ""
    /\ ~fault

LevelSubscription ==
    Subscription("scp_12", WithColours(Obj2("X", Num(5), "Val", Num(250))),
                 ThisId)

\* the subscription on Fader/Level 5 expecting 250 shows its active colours
LevelMatched ==
    /\ StoreGet(dataStore, "scp_12", "5", "1") = Str("250")
    /\ Evaluate(LevelSubscription)
         = Directive(TRUE, Bank.text, Str("rgb(0,0,0)"), Str("rgb(255,0,0)"))

C2_GetReplyStored ==
    LET toks == match(lastEvent.chunk) IN
    (/\ lastEvent.kind = "reply"
     /\ receivebuffer = ""
     /\ Len(toks) = 6
     /\ toks[2] = "get")
    => StoreGet(dataStore, lastEvent.action,
                Key(Plus1(parseInt(Str(toks[4])))),
                Key(Plus1(parseInt(Str(toks[5]))))) = Str(toks[6])

\* C3: the data handler never ends in an unhandled fault, whatever the
\* chunk holds, and leaves nothing behind that later chunks run into again.
C3_NoUnhandledFault ==
    lastEvent.kind = "data" => (~fault /\ receivebuffer = "")

\* C4: once the stream received so far ends with a line break, the cache
\* is the one that delivering the same lines one per chunk leaves.
C4_ChunkingIndependent ==
    (lastEvent.kind = "data" /\ pending = "" /\ ~fault)
    => dataStore = refStore

\* C5: a scene recall with the transport connected writes the ssrecall_ex
\* line first and the lines of the re-poll after it.
C5_RecallBeforePoll ==
    (/\ lastEvent.kind = "action"
     /\ Known(lastEvent.action)
     /\ TypeOf(lastEvent.action) = "scene"
     /\ socket = "connected")
    => /\ sent # <<>>
       /\ startsWith(sent[1], "ssrecall_ex ")
       /\ \A i \in 2..Len(sent) : ~startsWith(sent[i], "ssrecall_ex ")

\* C6: the catalogs are those a fresh instance synthesizes from the
\* dictionary of the selected model, name and colour classification included.
C6_CatalogAsFresh ==
    LET fresh == Loaded[Get(config, "model").s] IN
    Running =>
        /\ actionDefs = fresh.commands
        /\ feedbackDefs = FeedbackCatalog(fresh.commands, fresh.parsed.names,
                                          fresh.parsed.colors)

\* the field of a wire line that the options' Val turns into, as C7 states it
WireVal(v) ==
    CASE v.t = "boolean" -> IntToStr(v.n)
      [] v.t = "string" -> "\"" \o v.s \o "\""
      [] OTHER -> JSToString(v)

\* the 0-based wire coordinate of a 1-based option, 0 when the option is absent
WireCoord(v) == IF v.t = "undefined" THEN "0" ELSE JSToString(Minus1(v))

\* the line C7 states for an id and its options
StatedLine(prefix, id, options) ==
    trim(prefix \o " " \o AddressOf(id)
         \o " " \o WireCoord(Get(options, "X"))
         \o " " \o WireCoord(Get(options, "Y"))
         \o " " \o (IF prefix = "set" THEN WireVal(Get(options, "Val"))
                    ELSE ""))

PlainTypes == {"integer", "binary", "string"}

\* C7: a set on an integer, binary or string descriptor writes
\* `set <Address> <X-1> <Y-1> <Val>`, with a boolean as 1 or 0 and a string
\* in double quotes, and the get of the same options is the same line with
\* prefix get and no value.
C7_SetLineAsStated ==
    (/\ lastEvent.kind = "action"
     /\ Known(lastEvent.action)
     /\ TypeOf(lastEvent.action) \in PlainTypes
     /\ socket = "connected")
    => /\ sent = <<StatedLine("set", lastEvent.action, lastEvent.options)
                        \o "\n">>
       /\ parseCmd(config, scpCommands, "get", Str(lastEvent.action),
                   lastEvent.options).line
            = Str(StatedLine("get", lastEvent.action, lastEvent.options))

\* the key of a 1-based option coordinate, 1 when the option is absent
CoordKey(v) == IF v.t = "undefined" THEN "1" ELSE Key(v)

\* the value field (sixth token) of an acknowledgement, without its quotes
EchoedVal(chunk) == Str(StripQuotes(match(chunk)[6]))

\* the console's echo of a set on an integer, string or binary descriptor
\* has been processed
EchoProcessed ==
    /\ lastEvent.kind = "echo"
    /\ Known(lastEvent.action)
    /\ TypeOf(lastEvent.action) \in PlainTypes
    /\ receivebuffer = ""

XOptions ==
    {Obj1("X", Num(5)), Obj1("X", Str("-1")), Obj1("X", Num(-4)), EmptyObj}

\* the 1-based X the encoder addresses: X of its get line, plus 1
EncoderX(id, options) ==
    Plus1(parseInt(Str(match(
        parseCmd(config, scpCommands, "get", Str(id), options).line.s)[3])))

StOnSubscription ==
    Subscription("scp_30", WithColours(Obj2("Y", Num(1), "Val", Bool(TRUE))),
                 ThisId)

\* C9: the evaluator looks the cache up at the X the encoder addresses, so
\* after `NOTIFY set MIXER:Current/St/Fader/On 0 0 1` (a command with
\* DimX = 1) the subscription expecting true on it is matched.
C9_LookupWhereStored ==
    (/\ Processed(StOnLine \o "\n")
     /\ Known("scp_30")
     /\ Fits(feedbackDefs, "scp_30", StOnSubscription.options))
    => /\ \A o \in XOptions :
            Key(feedbackX(config, o)) = Key(EncoderX("scp_30", o))
       /\ Evaluate(StOnSubscription).matched

\* subscriptions of the three kinds: ordinary, name and colour
EvalSubscriptions ==
    { LevelSubscription,
      Subscription("scp_20", Obj2("X", Num(5), "Y", Num(1)), ThisId),
      Subscription("scp_21", Obj2("X", Num(5), "Y", Num(1)), ThisId) }

\* the cache holds nothing at the coordinate feedback() resolves
NothingCached(fb) ==
    StoreGet(dataStore, fb.type, Key(feedbackX(config, fb.options)),
             CoordKey(Get(fb.options, "Y"))).t = "undefined"

\* C10: with nothing cached at its coordinate, a subscription evaluates to
\* no render directive and no fault, whatever else the cache holds.
C10_AbsentNoDirective ==
    \A fb \in EvalSubscriptions :
        (/\ Known(fb.type)
         /\ Fits(feedbackDefs, fb.type, fb.options)
         /\ NothingCached(fb))
        => Evaluate(fb) = NoDirective

\* subscriptions on name and colour commands, with the options their
\* catalog entries give (the value option is left out of them)
NameSubscriptions ==
    { Subscription("scp_20", Obj2("X", Num(5), "Y", Num(1)), ThisId),
      Subscription("scp_20", Obj2("X", Num(5), "Y", Num(2)), ThisId),
      Subscription("scp_22", Obj1("X", Num(5)), ThisId) }

ColourSubscriptions ==
    { Subscription("scp_21", Obj2("X", Num(5), "Y", Num(2)), ThisId) }

\* the value cached at the coordinate a subscription resolves
CachedAt(fb) ==
    StoreGet(dataStore, fb.type, Key(feedbackX(config, fb.options)),
             CoordKey(Get(fb.options, "Y")))

\* a subscription the catalog admits, on a command of the loaded dictionary
\* whose address ends in suffix, with a value cached at its coordinate
CachedFor(fb, suffix) ==
    /\ Known(fb.type)
    /\ endsWith(AddressOf(fb.type), suffix)
    /\ Fits(feedbackDefs, fb.type, fb.options)
    /\ CachedAt(fb).t # "undefined"

\* C11: a name subscription with a value cached at its coordinate shows the
\* cached string as its text, and a colour subscription the palette pair of
\* the cached colour, whether or not the cached value compares equal to the
\* value the subscription expects.
C11_CachedSurfaced ==
    /\ \A fb \in NameSubscriptions :
            CachedFor(fb, "Name")
            => /\ Evaluate(fb).kind = "directive"
               /\ Evaluate(fb).text = CachedAt(fb)
    /\ \A fb \in ColourSubscriptions :
            (CachedFor(fb, "olor") /\ Key(CachedAt(fb)) \in DOMAIN ChColorRGB)
            => /\ Evaluate(fb).kind = "directive"
               /\ Evaluate(fb).color = ChColorRGB[Key(CachedAt(fb))].color
               /\ Evaluate(fb).bgcolor = ChColorRGB[Key(CachedAt(fb))].bgcolor

\* the step is action() on an id that is not a macro action and that no
\* descriptor of the loaded dictionary carries
UnknownIdInvoked ==
    /\ lastEvent'.kind = "action"
    /\ ~startsWith(lastEvent'.action, "macro")
    /\ FindById(scpCommands, lastEvent'.action) = 0

\* C12: invoking a non-macro action whose id matches no loaded descriptor
\* hands nothing to the transport and leaves the value cache, the recording
\* state and the preset list as they were.
C12_UnknownIdNoEffect ==
    [][UnknownIdInvoked
       => /\ sent' = <<>>
          /\ UNCHANGED <<dataStore, macroRec, macroCount, scpPresets,
                         presetDefs>>]_vars

C12_Witness ==
    /\ lastEvent.kind = "action"
    /\ lastEvent.action = "scp_99"
    /\ socket = "connected"
    /\ macroRec
    /\ sent = <<>>

\* the step is the data handler running to its end on a chunk that holds
\* the complete line `OK devinfo productname CL5`
DevinfoProcessed ==
    /\ lastEvent'.kind = "data"
    /\ ~fault'
    /\ Contains(lastEvent'.chunk, DevinfoLine \o "\n")

\* C13: after the line `OK devinfo productname CL5` has been processed the
\* device identity is CL5, whether the line came alone in its chunk or with
\* other lines before or after it, and the line itself leaves the value
\* cache as it was.
C13_IdentityFromLine ==
    [][DevinfoProcessed
       => /\ productName' = "CL5"
          /\ lastEvent'.chunk = DevinfoLine \o "\n"
                => dataStore' = dataStore]_vars

\* the id of the descriptor of the loaded dictionary at exactly this address,
\* "" when there is none
IdAt(address) ==
    IF \E i \in 1..Len(scpCommands) :
            Get(scpCommands[i], "Address").s = address
    THEN ActionId(scpCommands[CHOOSE i \in 1..Len(scpCommands) :
                        Get(scpCommands[i], "Address").s = address])
    ELSE ""

\* the descriptor an id names is an integer with Max == 1
IsSwitch(id) ==
    /\ Known(id)
    /\ TypeOf(id) = "integer"
    /\ Get(scpCommands[FindById(scpCommands, id)], "Max").s = "1"

\* inbound lines on switches: the wire value 1 for St/Fader/On, a command
\* with DimX = 1, and the wire value 0 for InCh/Fader/On on channel 5; with
\* each the coordinate options of a subscription or invocation on it
SwitchLines ==
    { [line |-> StOnLine, address |-> "MIXER:Current/St/Fader/On",
       options |-> Obj1("Y", Num(1)), on |-> TRUE],
      [line |-> FaderOffLine, address |-> "MIXER:Current/InCh/Fader/On",
       options |-> Obj1("X", Num(5)), on |-> FALSE] }

\* the last token of the line a set with these options is encoded as
WireValueOf(id, options) ==
    Last(match(parseCmd(config, scpCommands, "set", Str(id), options).line.s))

\* the inbound line l has just been decoded and the catalog admits a
\* subscription on its switch with the line's coordinates
SwitchDecoded(l) ==
    /\ Processed(l.line \o "\n")
    /\ IsSwitch(IdAt(l.address))
    /\ Fits(feedbackDefs, IdAt(l.address),
            WithColours(Put(l.options, "Val", Bool(TRUE))))

\* C14: on an integer descriptor with Max == 1 a set with Val true is
\* encoded with wire value 1 and with Val false with 0, and after an inbound
\* wire value 0 (1) has been decoded at a coordinate the subscription on
\* that coordinate expecting false (true) is matched and the one expecting
\* the opposite boolean is not.
C14_BooleanCoercion ==
    \A l \in SwitchLines, b \in BOOLEAN :
        SwitchDecoded(l)
        => /\ WireValueOf(IdAt(l.address), Put(l.options, "Val", Bool(b)))
                = (IF b THEN "1" ELSE "0")
           /\ Evaluate(Subscription(IdAt(l.address),
                    WithColours(Put(l.options, "Val", Bool(b))),
                    ThisId)).matched = (b = l.on)

\* the lines of a file that do not break off early
Unbroken(f) == SelectSeq(f, LAMBDA l : l \notin BrokenLines)

\* the step is updateConfig reading the dictionary file f, the instance not
\* having faulted before
FileRead(f) ==
    /\ lastEvent'.kind = "updateConfig"
    /\ lastEvent'.chunk = FileText(f)
    /\ ~fault

\* C15: parsing a dictionary file never faults: a line that starts with OK
\* or NOTIFY and breaks off early (a lone `OK`, fewer than four tokens) adds
\* no descriptor, and the lines before and after it yield their descriptors
\* as they do without it.
C15_BrokenLineSkipped ==
    [][\A f \in DictFiles :
        FileRead(f)
        => /\ ~fault'
           /\ scpCommands'
                = SortCommands(parseData(FileText(Unbroken(f)),
                                         SCP_PARAMS).cmds)]_vars

\* inbound lines with the address of their descriptor and the coordinate
\* and value of the record they decode to: two values for channel 5 of
\* Fader/Level, and a scene recall, whose value comes in the place of X
ValueRecords ==
    { [line |-> LevelLine, address |-> "MIXER:Current/InCh/Fader/Level",
       X |-> "5", Y |-> "1", Val |-> Str("250")],
      [line |-> LevelDownLine, address |-> "MIXER:Current/InCh/Fader/Level",
       X |-> "5", Y |-> "1", Val |-> Str("-100")],
      [line |-> SceneLine, address |-> "scene_",
       X |-> "1", Y |-> "a", Val |-> Num(5)] }

\* the step is the data handler running to its end on this chunk
Handled(chunk) ==
    /\ lastEvent'.kind = "data"
    /\ lastEvent'.chunk = chunk
    /\ ~fault'

\* addToDataStore has left the record `once.cmd` and the cache of the next
\* state behind, and applied to that record again it leaves the same cache
AppliedAgain(scp, once) ==
    /\ once.store = dataStore'
    /\ addToDataStore(config, once.store, scp, once.cmd).store = once.store

\* the record a line decodes to, applied to the cache and applied again
Reapplied(r) ==
    AppliedAgain(scpCommands[FindById(scpCommands, IdAt(r.address))],
                 addToDataStore(config, dataStore,
                     scpCommands[FindById(scpCommands, IdAt(r.address))],
                     parseData(r.line, SCP_VALS).cmds[1]))

\* C16: a chunk applied a second time leaves the cache as the first time
\* left it, and after a record has been applied the cache holds its value
\* at its coordinate, whatever it held there before; a value that comes in
\* the place of X is stored at X = 1.
C16_IdempotentLastWins ==
    [][/\ \A chunk \in Chunks :
            (Handled(chunk) /\ lastEvent.kind = "data"
                /\ lastEvent.chunk = chunk)
            => dataStore' = dataStore
       /\ \A r \in ValueRecords :
            (Handled(r.line \o "\n") /\ IdAt(r.address) # "")
            => /\ StoreGet(dataStore', IdAt(r.address), r.X, r.Y) = r.Val
               /\ Reapplied(r)]_vars

\* two chunks have come, each a record for channel 5 of Fader/Level, and
\* the cache holds the value of the later one
C16_Witness ==
    /\ Processed(LevelDownLine \o "\n")
    /\ nChunks = 2
    /\ refStore = dataStore
    /\ StoreGet(dataStore, "scp_12", "5", "1") = Str("-100")

\* no two descriptors of the loaded dictionary have the same address
UniqueAddresses ==
    \A i, j \in 1..Len(scpCommands) :
        Get(scpCommands[i], "Address") = Get(scpCommands[j], "Address")
        => i = j

\* the cache with the value of the tokens of a line stored under an id
StoredUnder(store, id, toks) ==
    StoreAt(store, Str(SliceFrom(id, 4)), Obj1("Val", Str(StripQuotes(toks[6]))),
            Plus1(parseInt(Str(toks[4]))), Plus1(parseInt(Str(toks[5])))).store

\* the step is the data handler on a line of six tokens whose address is
\* exactly the address of a descriptor
ExactAddressHandled(line, toks) ==
    /\ Handled(line \o "\n")
    /\ Len(toks) = 6
    /\ UniqueAddresses
    /\ IdAt(toks[3]) # ""

\* C17: an inbound line whose address is exactly the address of a
\* descriptor is stored under the Index of that descriptor and under no
\* other, also when the address of another descriptor is a proper prefix of
\* it.
C17_ExactAddressStored ==
    [][\A line \in Lines :
        ExactAddressHandled(line, match(line))
        => dataStore' = StoredUnder(dataStore, IdAt(match(line)[3]),
                                    match(line))]_vars

\* the presets in front of the last one are left as they are
EarlierPresetsKept ==
    /\ Len(scpPresets') = Len(scpPresets)
    /\ \A i \in 1..(Len(scpPresets) - 1) : scpPresets'[i] = scpPresets[i]

\* the last preset is one that macroRecStart pushed
LastIsMacro ==
    /\ Len(scpPresets) >= 2
    /\ startsWith(Last(scpPresets).label, "Macro ")

\* C18: however macroRecStart, macroRecStop, inbound lines and
\* configuration updates interleave, the preset `Create SCP Macro` stays
\* first in the list with its single macroRecStart action, and inbound
\* lines that come while recording change no preset but the last, which is
\* the macro preset the latest macroRecStart pushed.
C18_RecordedIntoMacroOnly ==
    [][/\ Running' => (scpPresets' # <<>> /\ scpPresets'[1] = CreatePreset)
       /\ (lastEvent'.kind = "data" /\ macroRec)
            => /\ EarlierPresetsKept
               /\ scpPresets' # scpPresets => LastIsMacro]_vars

\* C20: the macro presets of the list carry pairwise distinct labels.
C20_MacroLabelsDistinct ==
    \A i, j \in 2..Len(scpPresets) :
        scpPresets[i].label = scpPresets[j].label => i = j

\* the step is action() with the socket absent or not connected, the
\* instance not having faulted before
InvokedUnconnected ==
    /\ lastEvent'.kind = "action"
    /\ socket # "connected"
    /\ ~fault

\* C19: an action invoked while the socket is absent or not connected, a
\* scene recall with subscriptions registered included, hands no line to
\* the transport and raises no fault.
C19_NothingSentUnconnected ==
    [][InvokedUnconnected => (sent' = <<>> /\ ~fault')]_vars

\* inbound lines with the action each stands for: the command of its
\* address, its coordinates 1-based as the cache keeps them, and its value,
\* a number for an integer, a boolean for an integer with Max == 1, the
\* text for a string
MacroRecords ==
    { [line |-> LevelLine, address |-> "MIXER:Current/InCh/Fader/Level",
       X |-> Num(5), Y |-> Num(1), Val |-> Num(250)],
      [line |-> LevelDownLine, address |-> "MIXER:Current/InCh/Fader/Level",
       X |-> Num(5), Y |-> Num(1), Val |-> Num(-100)],
      [line |-> FaderOffLine, address |-> "MIXER:Current/InCh/Fader/On",
       X |-> Num(5), Y |-> Num(1), Val |-> Bool(FALSE)],
      [line |-> NameLine, address |-> "MIXER:Current/InCh/Label/Name",
       X |-> Num(5), Y |-> Num(2), Val |-> Str("Kick")],
      [line |-> SceneLine, address |-> "scene_",
       X |-> Num(1), Y |-> Str("a"), Val |-> Num(5)] }

\* the actions of the preset at the end of a list of presets
RecordedIn(presets) == presets[Len(presets)].actions

\* two actions are for the same (command, X, Y) coordinate
SameCoordinate(a, b) ==
    /\ a.action = b.action
    /\ Get(a.options, "X") = Get(b.options, "X")
    /\ Get(a.options, "Y") = Get(b.options, "Y")

\* no two actions of a list are for the same coordinate
OnePerCoordinate(acts) ==
    \A i, j \in 1..Len(acts) : SameCoordinate(acts[i], acts[j]) => i = j

\* the k-th action of a list is the action the line of r stands for
CarriesAt(acts, k, r) ==
    /\ acts[k].action = IdAt(r.address)
    /\ Get(acts[k].options, "X") = r.X
    /\ Get(acts[k].options, "Y") = r.Y
    /\ Get(acts[k].options, "Val") = r.Val

\* from acts to acts2 nothing but the k-th action has changed: it has kept
\* its coordinate, or it is new and comes last
OrderKept(acts, acts2, k) ==
    /\ Len(acts2) \in {Len(acts), Len(acts) + 1}
    /\ \A i \in 1..Len(acts) : i # k => acts2[i] = acts[i]
    /\ k <= Len(acts)
        => (Len(acts2) = Len(acts) /\ SameCoordinate(acts[k], acts2[k]))

\* the step is the data handler on the line of r, a line of a command of
\* the dictionary, while a macro is recorded into the last preset
RecordingHandled(r) ==
    /\ Handled(r.line \o "\n")
    /\ macroRec
    /\ ~fault
    /\ LastIsMacro
    /\ IdAt(r.address) # ""

\* C21: while a recording is in progress, the macro being recorded holds at
\* most one action per (command, X, Y) coordinate; after an inbound line the
\* action of its coordinate carries the value of that line, X and Y 1-based
\* and the value a boolean for an integer with Max == 1; and the other
\* actions keep their places, an action for a new coordinate coming last.
C21_OnePerCoordinateLatest ==
    [][\A r \in MacroRecords :
        RecordingHandled(r)
        => /\ OnePerCoordinate(RecordedIn(scpPresets'))
           /\ \E k \in 1..Len(RecordedIn(scpPresets')) :
                /\ CarriesAt(RecordedIn(scpPresets'), k, r)
                /\ OrderKept(RecordedIn(scpPresets),
                             RecordedIn(scpPresets'), k)]_vars

====
